---- MODULE Spec2Model ----
\* Tag map graph engine of CardNotes (src/tag_map_view.py, src/main.py).
\*
\* Objects are kept in two arenas: nodeObjs (TagNode objects) and connObjs
\* (TagConnection objects), indexed by identity.  An object taken out of the
\* scene stays in its arena, because Python keeps it alive while a node's
\* `edges` list, a connection's start_node/end_node or the scene's start_node
\* still refers to it.
\*
\* Coordinates are fixed-point numbers in thousandths of a scene unit.  A
\* Python float keeps 53 significant bits; the model keeps SignificandBits of
\* them, so that a sum of several positions is rounded as a float sum is.
EXTENDS Integers, Sequences, FiniteSets, TLC

VARIABLES
    tags,           \* TagMapScene.tags: the list handed to update_scene
    layout_data,    \* TagMapScene.layout_data: the document handed to update_scene
    nodes,          \* TagMapScene.nodes: tag name -> TagNode identity
    start_node,     \* TagMapScene.start_node: None or a TagNode identity
    nodeObjs,       \* arena of TagNode objects
    connObjs,       \* arena of TagConnection objects
    items,          \* QGraphicsScene top-level items, in insertion order
    selectedItems,  \* QGraphicsScene.selectedItems()
    raised,         \* an exception left the last handler (the slot aborts)
    lastEvent,      \* the handler that ran last, and its branch for a press
    events,         \* number of handlers run so far
    sameTagRuns,    \* consecutive update_scene calls with the same tag set
    spiralPlaced,   \* history: nodes whose position _find_next_available_pos chose
    search          \* locals of a running _find_next_available_pos, or None

vars == <<tags, layout_data, nodes, start_node, nodeObjs, connObjs, items,
          selectedItems, raised, lastEvent, events, sameTagRuns, spiralPlaced,
          search>>

-----------------------------------------------------------------------------
\* Bounds of the model

\* Tag names the note store can supply, and their lexicographic order.
TagNames == {"a", "b"}
\* Every name of the model, in lexicographic order
NameOrder == <<"a", "b", "c", "d", "e">>
\* Names a saved document can mention: the tags, and a tag no note has now.
DocNames == TagNames \cup {"c"}
\* Labels the prompt or a saved record can carry.
Labels == {"", "x"}
\* Positions a saved document can hold: the second one collides with the
\* first spiral point around the origin.
SavedPos == {<<0, 0>>, <<100000, 0>>}
\* Longest connection list of a document read from the file.
MaxRecs == 2
\* Most handler calls followed in one window's lifetime.
MaxEvents == 6
\* Most tag updates followed after loading an arbitrary document.
MaxReloads == 1
\* Most handler calls followed when nodes are also moved with the pointer.
MaxMoveEvents == 5
\* Significant bits a float of the model keeps.
SignificandBits == 18

\* TagMapScene.start_node = None
None == 0

-----------------------------------------------------------------------------
\* Helpers for Python containers

Range(s) == {s[i] : i \in DOMAIN s}

\* dict.get(key, default)
Get(d, key, default) == IF key \in DOMAIN d THEN d[key] ELSE default

Abs(n) == IF n < 0 THEN -n ELSE n

Max(a, b) == IF a >= b THEN a ELSE b

Sign(n) == IF n < 0 THEN -1 ELSE IF n > 0 THEN 1 ELSE 0

\* math.sqrt, rounded down: the largest k in lo..hi with k * k <= n
RECURSIVE SqrtBetween(_, _, _)
SqrtBetween(n, lo, hi) ==
    IF lo = hi THEN lo
    ELSE LET mid == (lo + hi + 1) \div 2
         IN IF mid * mid <= n THEN SqrtBetween(n, mid, hi)
            ELSE SqrtBetween(n, lo, mid - 1)

Sqrt(n) == SqrtBetween(n, 0, 46340)

\* sorted(list(S)) for a set of tag names
Sorted(S) == SelectSeq(NameOrder, LAMBDA t : t \in S)

\* The spacing of the floats around v: 1 below 2^SignificandBits, then
\* doubling with every further bit.
RECURSIVE Quantum(_)
Quantum(v) ==
    IF Abs(v) < 2^SignificandBits THEN 1 ELSE 2 * Quantum(Abs(v) \div 2)

\* The float nearest to v, ties to the even significand
Fl(v) ==
    LET q == Quantum(v)
        d == v \div q
        rem == v - d * q
    IN  IF 2 * rem < q THEN d * q
        ELSE IF 2 * rem > q THEN (d + 1) * q
        ELSE IF d % 2 = 0 THEN d * q ELSE (d + 1) * q

\* set.add: a Python set is kept as the sequence of its elements in the
\* order they were added, which is the order the model iterates it in.
SetAdd(s, v) == IF v \in Range(s) THEN s ELSE Append(s, v)

\* sum(p[i] for p in s): float additions in iteration order, from 0
RECURSIVE SumOf(_, _, _)
SumOf(s, i, total) ==
    IF s = <<>> THEN total
    ELSE SumOf(Tail(s), i, Fl(total + Head(s)[i]))

\* Sequence s without its first occurrence of v (list.remove)
RECURSIVE RemoveFirst(_, _)
RemoveFirst(s, v) ==
    IF s = <<>> THEN <<>>
    ELSE IF Head(s) = v THEN Tail(s)
    ELSE <<Head(s)>> \o RemoveFirst(Tail(s), v)

RECURSIVE Reverse(_)
Reverse(s) == IF s = <<>> THEN <<>> ELSE Reverse(Tail(s)) \o <<Head(s)>>

NodeItem(id) == [kind |-> "node", id |-> id]
ConnItem(id) == [kind |-> "conn", id |-> id]

-----------------------------------------------------------------------------
\* TagNode

TagNode_init(tag_name) ==
    [tag_name |-> tag_name, pos |-> <<0, 0>>, edges |-> <<>>, highlighted |-> FALSE]

\* TagNode.get_data
TagNode_get_data(n) == [x |-> n.pos[1], y |-> n.pos[2]]

\* TagNode.add_edge on the arena
add_edge(objs, nid, cid) ==
    [objs EXCEPT ![nid].edges = Append(@, cid)]

\* TagNode.remove_edge on the arena
remove_edge(objs, nid, cid) ==
    [objs EXCEPT ![nid].edges = RemoveFirst(@, cid)]

\* TagNode.set_highlighted on the arena
set_highlighted(objs, nid, h) ==
    [objs EXCEPT ![nid].highlighted = h]

\* QGraphicsEllipseItem(-45, -15, 90, 30): the half axes of the ellipse
EllipseRx == 45
EllipseRy == 15

\* Faulty variant of get_intersection_point: no test for a zero-length
\* line, which then counts as vertical.
get_intersection_point_NoZeroCase(p2) ==
    LET rx == EllipseRx
        ry == EllipseRy
        longest == Max(Max(Abs(p2[1]), Abs(p2[2])), 1)
        down == (longest \div 900) + 1
        up == 900 \div longest
        ux == IF longest >= 900 THEN Abs(p2[1]) \div down ELSE Abs(p2[1]) * up
        uy == IF longest >= 900 THEN Abs(p2[2]) \div down ELSE Abs(p2[2]) * up
        norm == Sqrt(ry * ry * ux * ux + rx * rx * uy * uy)
    IN  IF p2[1] = 0
        THEN <<0, IF p2[2] > 0 THEN ry * 1000 ELSE -(ry * 1000)>>
        ELSE <<Sign(p2[1]) * ((rx * ry * ux * 1000) \div norm),
               Sign(p2[2]) * ((rx * ry * uy * 1000) \div norm)>>

\* TagNode.get_intersection_point for a line from the local origin to p2.
\* With m = p2.y / p2.x the code returns x = sqrt(1 / (1/rx^2 + m^2/ry^2))
\* and y = m * x, that is rx*ry*(dx, dy) / sqrt(ry^2 dx^2 + rx^2 dy^2).  The
\* direction is first brought to a length near 900 to keep the squares in
\* range; the result is in thousandths.
get_intersection_point(p2) ==
    LET rx == EllipseRx
        ry == EllipseRy
        longest == Max(Abs(p2[1]), Abs(p2[2]))
        down == (longest \div 900) + 1
        up == 900 \div longest
        ux == IF longest >= 900 THEN Abs(p2[1]) \div down ELSE Abs(p2[1]) * up
        uy == IF longest >= 900 THEN Abs(p2[2]) \div down ELSE Abs(p2[2]) * up
        norm == Sqrt(ry * ry * ux * ux + rx * rx * uy * uy)
    IN  IF p2[1] = 0 /\ p2[2] = 0 THEN <<0, 0>>
        ELSE IF p2[1] = 0
             THEN <<0, IF p2[2] > 0 THEN ry * 1000 ELSE -(ry * 1000)>>
        ELSE <<Sign(p2[1]) * ((rx * ry * ux * 1000) \div norm),
               Sign(p2[2]) * ((rx * ry * uy * 1000) \div norm)>>

-----------------------------------------------------------------------------
\* TagConnection

\* TagConnection.get_data
TagConnection_get_data(sc, c) ==
    [start |-> sc.nodeObjs[c.start_node].tag_name,
     end |-> sc.nodeObjs[c.end_node].tag_name,
     label |-> c.label]

\* TagConnection.update_position: the line runs between the points where
\* the segment of the two centres leaves each node's ellipse.  Both nodes are
\* top-level items without a transformation, so mapFromScene subtracts and
\* mapToScene adds the node's position.
update_position(sc, cid) ==
    LET c == sc.connObjs[cid]
        sp == sc.nodeObjs[c.start_node].pos
        ep == sc.nodeObjs[c.end_node].pos
        start_intersect_local ==
            get_intersection_point(<<ep[1] - sp[1], ep[2] - sp[2]>>)
        end_intersect_local ==
            get_intersection_point(<<sp[1] - ep[1], sp[2] - ep[2]>>)
        start_pos == <<sp[1] + start_intersect_local[1],
                       sp[2] + start_intersect_local[2]>>
        end_pos == <<ep[1] + end_intersect_local[1],
                     ep[2] + end_intersect_local[2]>>
    IN [sc EXCEPT !.connObjs[cid].line = <<start_pos, end_pos>>]

\* TagConnection.__init__: the new object registers itself on both nodes
\* and computes its line.
\* The scene record sc carries nodes, nodeObjs, connObjs, items, selectedItems.
TagConnection_init(sc, s, e, label) ==
    LET cid == Len(sc.connObjs) + 1
        c == [start_node |-> s, end_node |-> e, label |-> label,
              line |-> <<<<0, 0>>, <<0, 0>>>>]
    IN update_position(
           [sc EXCEPT !.connObjs = Append(@, c),
                      !.nodeObjs = add_edge(add_edge(@, s, cid), e, cid)],
           cid)

\* TagNode.itemChange(ItemPositionHasChanged): every edge of the node's
\* list recomputes its line
RECURSIVE UpdateEdges(_, _)
UpdateEdges(sc, edges) ==
    IF edges = <<>> THEN sc
    ELSE UpdateEdges(update_position(sc, Head(edges)), Tail(edges))

\* Faulty variant of itemChange: a position change updates no edge.
itemChange_NoUpdate(sc, nid) == sc

\* TagNode.itemChange on ItemPositionHasChanged
itemChange(sc, nid) == UpdateEdges(sc, sc.nodeObjs[nid].edges)

\* QGraphicsItem.setPos: nothing happens when the position is the same,
\* otherwise the position changes and itemChange is notified
setPos(sc, nid, p) ==
    IF sc.nodeObjs[nid].pos = p THEN sc
    ELSE itemChange([sc EXCEPT !.nodeObjs[nid].pos = p], nid)

\* QGraphicsScene.addItem
addItem(sc, it) == [sc EXCEPT !.items = Append(@, it)]

\* QGraphicsScene.removeItem: the item leaves the scene and the selection.
removeItem(sc, it) ==
    [sc EXCEPT !.items = SelectSeq(@, LAMBDA x : x # it),
               !.selectedItems = @ \ {it}]

-----------------------------------------------------------------------------
\* TagMapScene._find_next_available_pos

InitialRadius == 150
AngleStep == 30
RadiusIncrement == 10
SafeDx == 120
SafeDy == 50

\* 1000 * math.cos / math.sin of 0, 30, ..., 330 degrees
CosMilli == <<1000, 866, 500, 0, -500, -866, -1000, -866, -500, 0, 500, 866>>
SinMilli == <<0, 500, 866, 1000, 866, 500, 0, -500, -866, -1000, -866, -500>>

\* Faulty variant of IsOccupied: the vertical distance is not tested.
IsOccupied_XOnly(occupied_positions, x, y) ==
    \E pos \in Range(occupied_positions) : Abs(pos[1] - x) < SafeDx * 1000

\* The collision test of the inner loop (positions in thousandths)
IsOccupied(occupied_positions, x, y) ==
    \E pos \in Range(occupied_positions) :
        /\ Abs(pos[1] - x) < SafeDx * 1000
        /\ Abs(pos[2] - y) < SafeDy * 1000

\* The point the loop tries for r and theta
SpiralPoint(center_x, center_y, r, theta) ==
    <<Fl(center_x + r * CosMilli[(theta \div AngleStep) + 1]),
      Fl(center_y + r * SinMilli[(theta \div AngleStep) + 1])>>

\* Faulty variant of NextTheta: the spiral turns the other way.
NextTheta_Clockwise(theta) ==
    IF theta - AngleStep < 0 THEN 360 - AngleStep ELSE theta - AngleStep

\* theta and r after `theta += step; if theta >= 360: theta = 0; r += ...`
NextTheta(theta) ==
    IF theta + AngleStep >= 360 THEN 0 ELSE theta + AngleStep

\* Faulty variant of NextRadius: the radius never grows.
NextRadius_Fixed(r, theta) == r

NextRadius(r, theta) ==
    IF theta + AngleStep >= 360 THEN r + RadiusIncrement ELSE r

\* The `while True` loop from r and theta on
RECURSIVE SpiralFrom(_, _, _, _, _)
SpiralFrom(occupied_positions, center_x, center_y, r, theta) ==
    LET p == SpiralPoint(center_x, center_y, r, theta)
    IN  IF ~IsOccupied(occupied_positions, p[1], p[2]) THEN p
        ELSE SpiralFrom(occupied_positions, center_x, center_y,
                        NextRadius(r, theta), NextTheta(theta))

find_next_available_pos(occupied_positions, center_x, center_y) ==
    SpiralFrom(occupied_positions, center_x, center_y, InitialRadius, 0)

-----------------------------------------------------------------------------
\* TagMapScene.populate_scene

\* `pos_data and 'x' in pos_data and 'y' in pos_data`
HasSavedPos(fileNodes, tag_name) ==
    /\ tag_name \in DOMAIN fileNodes
    /\ "x" \in DOMAIN fileNodes[tag_name]
    /\ "y" \in DOMAIN fileNodes[tag_name]

\* Faulty variant of FirstPassStep: the tag is positioned but not added to placed_tags.
FirstPassStep_ForgetPlaced(acc, tag_name, fileNodes) ==
    LET sc == acc.sc
        nid == IF tag_name \in DOMAIN sc.nodes THEN sc.nodes[tag_name]
               ELSE Len(sc.nodeObjs) + 1
        sc1 == IF tag_name \in DOMAIN sc.nodes THEN sc
               ELSE [addItem(sc, NodeItem(nid)) EXCEPT
                        !.nodeObjs = Append(@, TagNode_init(tag_name)),
                        !.nodes = (tag_name :> nid) @@ @]
    IN  IF HasSavedPos(fileNodes, tag_name)
        THEN LET pos_tuple == <<fileNodes[tag_name].x, fileNodes[tag_name].y>>
             IN [sc |-> setPos(sc1, nid, pos_tuple),
                 occupied |-> SetAdd(acc.occupied, pos_tuple),
                 placed |-> acc.placed]
        ELSE [acc EXCEPT !.sc = sc1]

\* One iteration of the first pass: create the node if the scene has none
\* for the tag, then apply its saved position.
FirstPassStep(acc, tag_name, fileNodes) ==
    LET sc == acc.sc
        nid == IF tag_name \in DOMAIN sc.nodes THEN sc.nodes[tag_name]
               ELSE Len(sc.nodeObjs) + 1
        sc1 == IF tag_name \in DOMAIN sc.nodes THEN sc
               ELSE [addItem(sc, NodeItem(nid)) EXCEPT
                        !.nodeObjs = Append(@, TagNode_init(tag_name)),
                        !.nodes = (tag_name :> nid) @@ @]
    IN  IF HasSavedPos(fileNodes, tag_name)
        THEN LET pos_tuple == <<fileNodes[tag_name].x, fileNodes[tag_name].y>>
             IN [sc |-> setPos(sc1, nid, pos_tuple),
                 occupied |-> SetAdd(acc.occupied, pos_tuple),
                 placed |-> acc.placed \cup {tag_name}]
        ELSE [acc EXCEPT !.sc = sc1]

RECURSIVE FirstPass(_, _, _)
FirstPass(acc, tagList, fileNodes) ==
    IF tagList = <<>> THEN acc
    ELSE FirstPass(FirstPassStep(acc, Head(tagList), fileNodes),
                   Tail(tagList), fileNodes)

\* Centre of the spiral: the centroid of the saved positions, or the origin
SpiralCenter(occupied) ==
    IF occupied = <<>> THEN <<0, 0>>
    ELSE <<SumOf(occupied, 1, 0) \div Len(occupied),
           SumOf(occupied, 2, 0) \div Len(occupied)>>

\* Faulty variant of SecondPass: the new position is not added to
\* occupied_positions.
RECURSIVE SecondPass_NoAdd(_, _, _)
SecondPass_NoAdd(acc, newList, center) ==
    IF newList = <<>> THEN acc
    ELSE LET nid == acc.sc.nodes[Head(newList)]
             p == find_next_available_pos(acc.occupied, center[1], center[2])
         IN SecondPass_NoAdd([acc EXCEPT !.sc = setPos(@, nid, p)],
                             Tail(newList), center)

\* Faulty variant of SecondPass: the centre is computed again from
\* occupied_positions before every search.
RECURSIVE SecondPass_MovingCenter(_, _, _)
SecondPass_MovingCenter(acc, newList, center) ==
    IF newList = <<>> THEN acc
    ELSE LET nid == acc.sc.nodes[Head(newList)]
             c == SpiralCenter(acc.occupied)
             p == find_next_available_pos(acc.occupied, c[1], c[2])
         IN SecondPass_MovingCenter([acc EXCEPT !.sc = setPos(@, nid, p),
                                                !.occupied = SetAdd(@, p)],
                                    Tail(newList), center)

\* Second pass: the tags without a saved position, in sorted order
RECURSIVE SecondPass(_, _, _)
SecondPass(acc, newList, center) ==
    IF newList = <<>> THEN acc
    ELSE LET nid == acc.sc.nodes[Head(newList)]
             p == find_next_available_pos(acc.occupied, center[1], center[2])
         IN SecondPass([acc EXCEPT !.sc = setPos(@, nid, p),
                                   !.occupied = SetAdd(@, p)],
                       Tail(newList), center)

\* `for edge in start_node.edges: if edge.end_node == end_node`
AlreadyExists(sc, s, e) ==
    \E i \in DOMAIN sc.nodeObjs[s].edges :
        sc.connObjs[sc.nodeObjs[s].edges[i]].end_node = e

\* Faulty variant of ConnectStep: self.nodes[...] instead of self.nodes.get(...), so
\* a record naming an absent tag raises KeyError.
ConnectStep_Strict(sc, conn_data) ==
    IF ~({"start", "end"} \subseteq DOMAIN conn_data)
       \/ ~({conn_data.start, conn_data.end} \subseteq DOMAIN sc.nodes)
    THEN [sc EXCEPT !.raised = TRUE]
    ELSE LET s == sc.nodes[conn_data.start]
             e == sc.nodes[conn_data.end]
         IN IF ~AlreadyExists(sc, s, e)
            THEN addItem(TagConnection_init(sc, s, e, Get(conn_data, "label", "")),
                         ConnItem(Len(sc.connObjs) + 1))
            ELSE sc

\* One record of the connection list; a record without "start" or "end"
\* raises KeyError out of populate_scene.
ConnectStep(sc, conn_data) ==
    IF ~({"start", "end"} \subseteq DOMAIN conn_data)
    THEN [sc EXCEPT !.raised = TRUE]
    ELSE LET s == Get(sc.nodes, conn_data.start, None)
             e == Get(sc.nodes, conn_data.end, None)
         IN IF s # None /\ e # None /\ ~AlreadyExists(sc, s, e)
            THEN addItem(TagConnection_init(sc, s, e, Get(conn_data, "label", "")),
                         ConnItem(Len(sc.connObjs) + 1))
            ELSE sc

RECURSIVE ThirdPass(_, _)
ThirdPass(sc, connections) ==
    IF connections = <<>> \/ sc.raised THEN sc
    ELSE ThirdPass(ConnectStep(sc, Head(connections)), Tail(connections))

populate_scene(sc, tagList, layout) ==
    LET fileNodes == Get(layout, "nodes", <<>>)
        one == FirstPass([sc |-> sc, occupied |-> <<>>, placed |-> {}],
                         tagList, fileNodes)
        new_tags == Range(tagList) \ one.placed
        two == SecondPass(one, Sorted(new_tags), SpiralCenter(one.occupied))
    IN  ThirdPass(two.sc, Get(layout, "connections", <<>>))

\* Faulty variant of update_scene: the nodes of removed tags are left in place.
update_scene_KeepNodes(sc, tagList, layout) ==
    LET isConn(it) == it.kind = "conn"
        sc1 == [sc EXCEPT
                  !.items = SelectSeq(@, LAMBDA it : ~isConn(it)),
                  !.selectedItems = {it \in @ : ~isConn(it)}]
    IN  populate_scene(sc1, tagList, layout)

\* TagMapScene.update_scene
update_scene(sc, tagList, layout) ==
    LET gone == {t \in DOMAIN sc.nodes : t \notin Range(tagList)}
        goneItems == {NodeItem(sc.nodes[t]) : t \in gone}
        isConn(it) == it.kind = "conn"
        sc1 == [sc EXCEPT
                  !.nodes = [t \in DOMAIN sc.nodes \ gone |-> sc.nodes[t]],
                  !.items = SelectSeq(@, LAMBDA it : it \notin goneItems /\ ~isConn(it)),
                  !.selectedItems = {it \in @ : it \notin goneItems /\ ~isConn(it)}]
    IN  populate_scene(sc1, tagList, layout)

\* TagMapScene.get_layout_data.  QGraphicsScene.items() lists the items in
\* descending stacking order: the item added last comes first.
\* Faulty variant of NodesData: the export holds no node position.
NodesData_NoPositions(sc, its) == <<>>

RECURSIVE NodesData(_, _)
NodesData(sc, its) ==
    IF its = <<>> THEN <<>>
    ELSE LET rest == NodesData(sc, Tail(its))
             it == Head(its)
         IN IF it.kind = "node"
            THEN (sc.nodeObjs[it.id].tag_name :> TagNode_get_data(sc.nodeObjs[it.id]))
                 @@ rest
            ELSE rest

RECURSIVE ConnectionsData(_, _)
ConnectionsData(sc, its) ==
    IF its = <<>> THEN <<>>
    ELSE IF Head(its).kind = "conn"
         THEN <<TagConnection_get_data(sc, sc.connObjs[Head(its).id])>>
              \o ConnectionsData(sc, Tail(its))
         ELSE ConnectionsData(sc, Tail(its))

\* Faulty variant of get_layout_data: the positions of the loaded document are merged
\* into the export.
get_layout_data_Merge(sc) ==
    [nodes |-> NodesData(sc, sc.items) @@ Get(layout_data, "nodes", <<>>),
     connections |-> ConnectionsData(sc, Reverse(sc.items))]

get_layout_data(sc) ==
    [nodes |-> NodesData(sc, sc.items),
     connections |-> ConnectionsData(sc, Reverse(sc.items))]

-----------------------------------------------------------------------------
\* Inputs

\* Lists of distinct tags, in any order (MainWindow._get_all_tags)
TagLists ==
    {s \in UNION {[1..n -> TagNames] : n \in 0..Cardinality(TagNames)} :
        \A i, j \in DOMAIN s : s[i] = s[j] => i = j}

PosEntries == {[x |-> p[1], y |-> p[2]] : p \in SavedPos}
NodeMaps(names) == UNION {[S -> PosEntries] : S \in SUBSET names}
Records == [start : DocNames, end : DocNames, label : Labels]
ConnLists == UNION {[1..n -> Records] : n \in 0..MaxRecs}
\* Well-formed layout documents: positions for tags, any connection list
Docs == [nodes : NodeMaps(TagNames), connections : ConnLists]
\* Documents that save positions, also of a stale name, and no connection
PositionDocs == [nodes : NodeMaps(DocNames), connections : {<<>>}]

\* Documents that save no position, or a and b a hundred pixels apart, and
\* none, one or both of two connections between a and b
ConnectionDocs ==
    [nodes : {<<>>, [t \in TagNames |->
                       IF t = "a" THEN [x |-> 0, y |-> 0]
                       ELSE [x |-> 100000, y |-> 0]]},
     connections : {<<>>,
                    <<[start |-> "a", end |-> "b", label |-> ""]>>,
                    <<[start |-> "b", end |-> "a", label |-> "x"]>>,
                    <<[start |-> "a", end |-> "b", label |-> ""],
                      [start |-> "b", end |-> "a", label |-> "x"]>>}]

\* What load_tag_map_data returns for no file or an unreadable one: {}
EmptyDoc == <<>>
\* Damaged documents: node entries without x or without y, connection
\* records without start or without end
BadEntries == {[x |-> 100000], [y |-> 0]}
BadRecords ==
    [end : DocNames, label : Labels] \cup [start : DocNames, label : Labels]
DamagedNodeMaps == UNION {[S -> PosEntries \cup BadEntries] : S \in SUBSET TagNames}
DamagedConnLists == {<<>>} \cup {<<r>> : r \in Records \cup BadRecords}
DamagedDocs == [nodes : DamagedNodeMaps, connections : DamagedConnLists]

-----------------------------------------------------------------------------
\* The scene as one record, and the state after construction

Scene ==
    [nodes |-> nodes, nodeObjs |-> nodeObjs, connObjs |-> connObjs,
     items |-> items, selectedItems |-> selectedItems, raised |-> raised]

\* TagMapScene([], {}): update_scene of no tags and the empty document
EmptyScene ==
    [nodes |-> <<>>, nodeObjs |-> <<>>, connObjs |-> <<>>,
     items |-> <<>>, selectedItems |-> {}, raised |-> FALSE]

SetScene(sc) ==
    /\ nodes' = sc.nodes
    /\ nodeObjs' = sc.nodeObjs
    /\ connObjs' = sc.connObjs
    /\ items' = sc.items
    /\ selectedItems' = sc.selectedItems
    /\ raised' = sc.raised

\* No _find_next_available_pos call is being followed
NoSearch ==
    [state |-> "none", occupied_positions |-> <<>>, center_x |-> 0,
     center_y |-> 0, r |-> 0, theta |-> 0, result |-> <<0, 0>>]

Init ==
    /\ tags = <<>>
    /\ layout_data = <<>>
    /\ nodes = <<>>
    /\ start_node = None
    /\ nodeObjs = <<>>
    /\ connObjs = <<>>
    /\ items = <<>>
    /\ selectedItems = {}
    /\ raised = FALSE
    /\ lastEvent = "init"
    /\ events = 0
    /\ sameTagRuns = 0
    /\ spiralPlaced = {}
    /\ search = NoSearch

-----------------------------------------------------------------------------
\* Handlers

\* One more handler call, within the bound
Tick == events < MaxEvents /\ events' = events + 1

\* The nodes the second pass of populate_scene(tagList, layout) positions
SpiralPlacedBy(sc, tagList, layout) ==
    {sc.nodes[t] : t \in {u \in Range(tagList) :
                            ~HasSavedPos(Get(layout, "nodes", <<>>), u)}}

\* MainWindow.open_tag_map with no window yet: doc is what load_tag_map_data
\* reads; TagMapWindow(all_tags, doc, ...) builds an empty scene and calls
\* update_tags(tags, doc).
open_tag_map(tagList, doc) ==
    /\ lastEvent = "init"
    /\ search = NoSearch
    /\ Tick
    /\ LET sc == update_scene(EmptyScene, tagList, doc)
       IN /\ SetScene(sc)
          /\ spiralPlaced' = SpiralPlacedBy(sc, tagList, doc)
    /\ tags' = tagList
    /\ layout_data' = doc
    /\ start_node' = None
    /\ lastEvent' = "open"
    /\ sameTagRuns' = 1
    /\ UNCHANGED search

\* TagMapWindow.update_tags(tags) from manage_tags / open_tag_map while the
\* window is visible: update_scene(tags, get_layout_data()).
update_tags(tagList) ==
    /\ ~raised /\ lastEvent # "init"
    /\ Tick
    /\ LET doc == get_layout_data(Scene)
           sc == update_scene(Scene, tagList, doc)
       IN /\ SetScene(sc)
          /\ layout_data' = doc
          /\ spiralPlaced' = (spiralPlaced \cap Range(sc.nodes))
                                \cup SpiralPlacedBy(sc, tagList, doc)
    /\ tags' = tagList
    /\ lastEvent' = "update"
    /\ sameTagRuns' = IF sameTagRuns >= 1 /\ Range(tagList) = Range(tags)
                      THEN sameTagRuns + 1
                      ELSE 1
    /\ UNCHANGED <<start_node, search>>

\* The node and connection items of the scene
SceneNodes == {it.id : it \in {x \in Range(items) : x.kind = "node"}}
SceneConns == {it.id : it \in {x \in Range(items) : x.kind = "conn"}}

\* itemAt: the nodes a pointer press can hit.  A node lying exactly under a
\* node added later is covered by it.
HitNodes ==
    {n \in SceneNodes :
        ~\E i, j \in DOMAIN items :
            /\ items[i] = NodeItem(n) /\ i < j /\ items[j].kind = "node"
            /\ nodeObjs[items[j].id].pos = nodeObjs[n].pos}

\* Faulty variant of ConnectionGesture: the second click creates the
\* connection and leaves the gesture pending and the start highlighted.
ConnectionGesture_KeepPending(sc, start, node, ok, label) ==
    IF start = None
    THEN [sc |-> [sc EXCEPT !.nodeObjs = set_highlighted(@, node, TRUE)],
          start_node |-> node, branch |-> "start"]
    ELSE IF start # node
    THEN [sc |-> IF ok
                 THEN addItem(TagConnection_init(sc, start, node, label),
                              ConnItem(Len(sc.connObjs) + 1))
                 ELSE sc,
          start_node |-> start,
          branch |-> IF ok THEN "connect" ELSE "cancel"]
    ELSE [sc |-> [sc EXCEPT !.nodeObjs = set_highlighted(@, start, FALSE)],
          start_node |-> None, branch |-> "cancel"]

\* The `if node:` branch of mousePressEvent, as the scene and the pending
\* start it leaves, and the branch taken; ok and label are what the label
\* prompt returns when it is shown.
ConnectionGesture(sc, start, node, ok, label) ==
    IF start = None
    THEN [sc |-> [sc EXCEPT !.nodeObjs = set_highlighted(@, node, TRUE)],
          start_node |-> node, branch |-> "start"]
    ELSE IF start # node
    THEN LET sc1 == IF ok
                    THEN addItem(TagConnection_init(sc, start, node, label),
                                 ConnItem(Len(sc.connObjs) + 1))
                    ELSE sc
         IN [sc |-> [sc1 EXCEPT !.nodeObjs = set_highlighted(@, start, FALSE)],
             start_node |-> None,
             branch |-> IF ok THEN "connect" ELSE "cancel"]
    ELSE [sc |-> [sc EXCEPT !.nodeObjs = set_highlighted(@, start, FALSE)],
          start_node |-> None, branch |-> "cancel"]

\* A click on a node: TagMapScene.mousePressEvent takes the press and leaves
\* the event unaccepted, so the view (RubberBandDrag) begins a rubber band
\* and clears the selection; the release ends the empty rubber band.
mousePressEvent_Node(node, ok, label) ==
    /\ ~raised /\ lastEvent # "init"
    /\ Tick
    /\ node \in HitNodes
    /\ LET g == ConnectionGesture(Scene, start_node, node, ok, label)
       IN /\ SetScene([g.sc EXCEPT !.selectedItems = {}])
          /\ start_node' = g.start_node
          /\ lastEvent' = g.branch
    /\ sameTagRuns' = 0
    /\ UNCHANGED <<tags, layout_data, spiralPlaced, search>>

\* A press on a node, pointer movement, release, when the press shows no
\* prompt: mousePressEvent takes the press as above and never hands it to the
\* node, so the node is no mouse grabber and does not move; the movement
\* stretches the view's rubber band, which selects the items of band.
mouseDrag_Node(node, band) ==
    /\ ~raised /\ lastEvent # "init"
    /\ Tick
    /\ node \in HitNodes
    /\ start_node \in {None, node}
    /\ NodeItem(node) \in band /\ band \subseteq Range(items)
    /\ LET g == ConnectionGesture(Scene, start_node, node, FALSE, "")
       IN /\ SetScene([g.sc EXCEPT !.selectedItems = band])
          /\ start_node' = g.start_node
    /\ lastEvent' = "drag"
    /\ sameTagRuns' = 0
    /\ UNCHANGED <<tags, layout_data, spiralPlaced, search>>

\* A double click on a node whose second press is held and moved, when the
\* first press shows no prompt: the first press is taken by mousePressEvent
\* as above; the second arrives as a double click, which the scene does not
\* override, so the node gets it, becomes the only selected item and the
\* mouse grabber, and follows the pointer to p (ItemIsMovable).
mouseDoubleClickEvent_Node(node, p) ==
    /\ ~raised /\ lastEvent # "init"
    /\ Tick
    /\ node \in HitNodes
    /\ start_node \in {None, node}
    /\ LET g == ConnectionGesture(Scene, start_node, node, FALSE, "")
           sc == setPos([g.sc EXCEPT !.selectedItems = {NodeItem(node)}],
                        node, p)
       IN /\ SetScene(sc)
          /\ start_node' = g.start_node
    /\ spiralPlaced' = IF p = nodeObjs[node].pos THEN spiralPlaced
                       ELSE spiralPlaced \ {node}
    /\ lastEvent' = "move"
    /\ sameTagRuns' = 0
    /\ UNCHANGED <<tags, layout_data, search>>

\* Faulty variant of CancelPending: the highlight is cleared and the
\* gesture stays pending.
CancelPending_KeepPending ==
    IF start_node # None
    THEN /\ nodeObjs' = set_highlighted(nodeObjs, start_node, FALSE)
         /\ start_node' = start_node
    ELSE UNCHANGED <<nodeObjs, start_node>>

\* The pending gesture is cancelled (the `else` branch of mousePressEvent)
CancelPending ==
    IF start_node # None
    THEN /\ nodeObjs' = set_highlighted(nodeObjs, start_node, FALSE)
         /\ start_node' = None
    ELSE UNCHANGED <<nodeObjs, start_node>>

\* mousePressEvent on empty space: the base class finds no item, and the
\* view's rubber band clears the selection.
mousePressEvent_Empty ==
    /\ ~raised /\ lastEvent # "init"
    /\ Tick
    /\ CancelPending
    /\ selectedItems' = {}
    /\ lastEvent' = IF start_node # None THEN "cancel" ELSE "click"
    /\ sameTagRuns' = 0
    /\ UNCHANGED <<tags, layout_data, nodes, connObjs, items, raised,
                   spiralPlaced, search>>

\* mousePressEvent on a connection line: the base class delivers the press
\* to the selectable item; unless it is selected already, it becomes the
\* only selected item.
mousePressEvent_Connection(conn) ==
    /\ ~raised /\ lastEvent # "init"
    /\ Tick
    /\ conn \in SceneConns
    /\ CancelPending
    /\ selectedItems' = IF ConnItem(conn) \in selectedItems THEN selectedItems
                        ELSE {ConnItem(conn)}
    /\ lastEvent' = IF start_node # None THEN "cancel" ELSE "click"
    /\ sameTagRuns' = 0
    /\ UNCHANGED <<tags, layout_data, nodes, connObjs, items, raised,
                   spiralPlaced, search>>

\* Faulty variant of DeleteAll: a selected node is removed from the scene
\* as well.
RECURSIVE DeleteAll_NodesToo(_, _)
DeleteAll_NodesToo(sc, sel) ==
    IF sel = {} THEN sc
    ELSE LET it == CHOOSE x \in sel : TRUE
             c == sc.connObjs[it.id]
         IN IF it.kind = "conn"
            THEN DeleteAll_NodesToo(
                   removeItem([sc EXCEPT !.nodeObjs =
                       remove_edge(remove_edge(@, c.start_node, it.id),
                                  c.end_node, it.id)], it),
                   sel \ {it})
            ELSE DeleteAll_NodesToo(removeItem(sc, it), sel \ {it})

\* TagMapScene.keyPressEvent with Key_Delete
RECURSIVE DeleteAll(_, _)
DeleteAll(sc, sel) ==
    IF sel = {} THEN sc
    ELSE LET it == CHOOSE x \in sel : TRUE
             c == sc.connObjs[it.id]
         IN IF it.kind = "conn"
            THEN DeleteAll(
                   removeItem([sc EXCEPT !.nodeObjs =
                       remove_edge(remove_edge(@, c.start_node, it.id),
                                  c.end_node, it.id)], it),
                   sel \ {it})
            ELSE DeleteAll(sc, sel \ {it})

keyPressEvent_Delete ==
    /\ ~raised /\ lastEvent # "init"
    /\ Tick
    /\ SetScene(DeleteAll(Scene, selectedItems))
    /\ lastEvent' = "delete"
    /\ sameTagRuns' = 0
    /\ UNCHANGED <<tags, layout_data, start_node, spiralPlaced, search>>

\* Where a dragged node can be dropped.  The pointer moves by whole pixels,
\* so the node keeps the fraction of its coordinates: a free spot sixty
\* pixels under the origin, or the exact position of another node that is a
\* whole number of pixels away
DropPos(node) ==
    LET p == nodeObjs[node].pos
    IN {<<p[1] % 1000, 60000 + (p[2] % 1000)>>}
         \cup {nodeObjs[m].pos : m \in
                  {k \in SceneNodes \ {node} :
                      /\ (nodeObjs[k].pos[1] - p[1]) % 1000 = 0
                      /\ (nodeObjs[k].pos[2] - p[2]) % 1000 = 0}}

\* What a rubber band begun on a node can hold at release: the node alone,
\* or the node and any of the connections
Bands(node) ==
    {{NodeItem(node)} \cup {ConnItem(c) : c \in S} : S \in SUBSET SceneConns}

Next ==
    \/ /\ lastEvent = "init"
       /\ \E tagList \in TagLists, doc \in PositionDocs : open_tag_map(tagList, doc)
    \/ \E tagList \in TagLists : update_tags(tagList)
    \/ \E node \in SceneNodes, ok \in BOOLEAN, label \in Labels :
            mousePressEvent_Node(node, ok, label)
    \/ \E node \in SceneNodes : \E band \in Bands(node) : mouseDrag_Node(node, band)
    \/ mousePressEvent_Empty
    \/ \E conn \in SceneConns : mousePressEvent_Connection(conn)
    \/ keyPressEvent_Delete

\* The window's lifetime: opened on a document that saves positions, then
\* any interleaving of tag updates, clicks, rubber bands and deletions.
Spec == Init /\ [][Next]_vars

\* A shorter lifetime with every pointer action: the window is opened on
\* a document that saves connections, then nodes are also moved with the
\* pointer.
NextMove ==
    \/ /\ lastEvent = "init"
       /\ \E tagList \in TagLists, doc \in ConnectionDocs :
               open_tag_map(tagList, doc)
    \/ /\ events < MaxMoveEvents
       /\ \E tagList \in TagLists : update_tags(tagList)
    \/ /\ events < MaxMoveEvents
       /\ \E node \in SceneNodes, ok \in BOOLEAN, label \in Labels :
               mousePressEvent_Node(node, ok, label)
    \/ /\ events < MaxMoveEvents
       /\ \E node \in SceneNodes : \E band \in Bands(node) :
               mouseDrag_Node(node, band)
    \/ /\ events < MaxMoveEvents
       /\ \E node \in SceneNodes : \E p \in DropPos(node) :
               mouseDoubleClickEvent_Node(node, p)
    \/ /\ events < MaxMoveEvents
       /\ mousePressEvent_Empty
    \/ /\ events < MaxMoveEvents
       /\ \E conn \in SceneConns : mousePressEvent_Connection(conn)
    \/ /\ events < MaxMoveEvents
       /\ keyPressEvent_Delete

SpecMove == Init /\ [][NextMove]_vars

\* Loading alone: the window is opened on any well-formed document.
NextLoad ==
    /\ lastEvent = "init"
    /\ \E tagList \in TagLists, doc \in Docs : open_tag_map(tagList, doc)

SpecLoad == Init /\ [][NextLoad]_vars

\* Loading, then tag updates: the window is opened on any well-formed
\* document and the host then changes or repeats the tag list.
NextReload ==
    \/ /\ lastEvent = "init"
       /\ \E tagList \in TagLists, doc \in Docs : open_tag_map(tagList, doc)
    \/ /\ events <= MaxReloads
       /\ \E tagList \in TagLists : update_tags(tagList)

SpecReload == Init /\ [][NextReload]_vars

\* Loading a missing or damaged document: no file at all, a document
\* without the connections key or without the nodes key, or damaged entries.
NextMalformed ==
    \/ /\ lastEvent = "init"
       /\ \E tagList \in TagLists : open_tag_map(tagList, EmptyDoc)
    \/ /\ lastEvent = "init"
       /\ \E tagList \in TagLists, nm \in DamagedNodeMaps :
               open_tag_map(tagList, [nodes |-> nm])
    \/ /\ lastEvent = "init"
       /\ \E tagList \in TagLists, cl \in DamagedConnLists :
               open_tag_map(tagList, [connections |-> cl])
    \/ /\ lastEvent = "init"
       /\ \E tagList \in TagLists, doc \in DamagedDocs :
               open_tag_map(tagList, doc)

SpecMalformed == Init /\ [][NextMalformed]_vars

\* The document an earlier session saved: a and b placed from no file,
\* then c and d added while the window was open
FirstBatch == update_scene(EmptyScene, <<"a", "b">>, EmptyDoc)
SecondBatch ==
    update_scene(FirstBatch, <<"a", "b", "c", "d">>, get_layout_data(FirstBatch))
SavedSessions == {get_layout_data(FirstBatch), get_layout_data(SecondBatch)}

\* The five tags a..e in every order list(set(...)) can give them
OrderLists ==
    {s \in [1..Len(NameOrder) -> Range(NameOrder)] :
        \A i, j \in DOMAIN s : s[i] = s[j] => i = j}

\* Opening the map on a saved session, the tags in any order
NextOrder ==
    /\ lastEvent = "init"
    /\ \E tagList \in OrderLists, doc \in SavedSessions \cup {EmptyDoc} :
            open_tag_map(tagList, doc)

SpecOrder == Init /\ [][NextOrder]_vars

\* Occupied positions that block the first rings of the spiral around the
\* origin, in a fixed order
BlockingGrid ==
    <<<<100000, 0>>, <<-100000, 0>>, <<100000, 100000>>, <<-100000, 100000>>,
      <<100000, -100000>>, <<-100000, -100000>>, <<0, 140000>>, <<0, -140000>>>>
OccupiedLists ==
    {SelectSeq(BlockingGrid, LAMBDA q : q \in S) : S \in SUBSET Range(BlockingGrid)}
Centers == {<<0, 0>>, <<50000, 0>>}

\* _find_next_available_pos is called: r = 150, theta = 0
find_next_available_pos_call(occupied_positions, center) ==
    /\ lastEvent = "init"
    /\ search.state = "none"
    /\ search' = [state |-> "loop", occupied_positions |-> occupied_positions,
                  center_x |-> center[1], center_y |-> center[2],
                  r |-> InitialRadius, theta |-> 0, result |-> <<0, 0>>]
    /\ UNCHANGED <<tags, layout_data, nodes, start_node, nodeObjs, connObjs,
                   items, selectedItems, raised, lastEvent, events,
                   sameTagRuns, spiralPlaced>>

\* One turn of its `while True` loop
find_next_available_pos_turn ==
    /\ search.state = "loop"
    /\ LET p == SpiralPoint(search.center_x, search.center_y, search.r, search.theta)
       IN search' =
            IF ~IsOccupied(search.occupied_positions, p[1], p[2])
            THEN [search EXCEPT !.state = "returned", !.result = p]
            ELSE [search EXCEPT !.r = NextRadius(search.r, search.theta),
                                !.theta = NextTheta(search.theta)]
    /\ UNCHANGED <<tags, layout_data, nodes, start_node, nodeObjs, connObjs,
                   items, selectedItems, raised, lastEvent, events,
                   sameTagRuns, spiralPlaced>>

NextSearch ==
    \/ \E occupied_positions \in OccupiedLists, center \in Centers :
            find_next_available_pos_call(occupied_positions, center)
    \/ find_next_available_pos_turn

\* One call of the spiral search on any occupied set of the grid; the loop
\* keeps running once it is entered.
SpecSearch ==
    Init /\ [][NextSearch]_vars /\ WF_vars(find_next_available_pos_turn)

-----------------------------------------------------------------------------
\* Views of the scene used by the properties

\* Names of the live nodes
LiveNames == {nodeObjs[n].tag_name : n \in SceneNodes}

\* The live connections as records, with how often each occurs
LiveRecord(c) == TagConnection_get_data(Scene, connObjs[c])
LiveRecords == {LiveRecord(c) : c \in SceneConns}
ConnBag == [r \in LiveRecords |-> Cardinality({c \in SceneConns : LiveRecord(c) = r})]

\* The unordered endpoint pair of a live connection, by node identity
Ends(c) == {connObjs[c].start_node, connObjs[c].end_node}
\* ... and by tag name
EndNames(c) == {LiveRecord(c).start, LiveRecord(c).end}

\* The exported document, its connection list taken as a bag
BagOfSeq(sq) ==
    [r \in Range(sq) |-> Cardinality({i \in DOMAIN sq : sq[i] = r})]
ExportView ==
    [nodes |-> get_layout_data(Scene).nodes,
     connections |-> BagOfSeq(get_layout_data(Scene).connections)]

\* Every live connection joins two distinct live nodes, one per pair
ProperConns ==
    /\ \A c \in SceneConns :
          /\ connObjs[c].start_node # connObjs[c].end_node
          /\ Ends(c) \subseteq SceneNodes
    /\ \A c, d \in SceneConns : Ends(c) = Ends(d) => c = d

\* The step is update_scene with the tag set of the update_scene before it
RepeatedReconcile == sameTagRuns >= 1 /\ sameTagRuns' = sameTagRuns + 1

-----------------------------------------------------------------------------
\* C1: when reconcile(tags, D) has just run, reconcile(tags, exportLayout())
\* leaves the scene with the same connections (endpoint names and label),
\* none missing and none duplicated.
C1_ConnectionsKept ==
    [][(RepeatedReconcile /\ ProperConns) => ConnBag' = ConnBag]_vars

\* C2: when reconcile(tags, D) has just run, reconcile(tags, exportLayout())
\* changes the position of no node.
C2_PositionsKept ==
    [][RepeatedReconcile =>
         \A n \in SceneNodes :
            /\ n \in SceneNodes'
            /\ nodeObjs'[n].pos = nodeObjs[n].pos]_vars

\* C2 witness: a second reconcile of the same tags has run on a scene that
\* holds a node at a saved position and a node placed by the spiral.
C2_Witness ==
    /\ sameTagRuns >= 2
    /\ \E n, m \in SceneNodes :
          /\ nodeObjs[n].pos \in SavedPos \ {<<0, 0>>}
          /\ nodeObjs[m].pos \notin SavedPos

\* C3: from a scene with at least one node, reconcile(tags, exportLayout())
\* run twice in a row gives the same exported document both times (same
\* name-to-position mapping, same connection records).
C3_RoundTrip ==
    [][(lastEvent = "update" /\ SceneNodes # {} /\ RepeatedReconcile)
         => ExportView' = ExportView]_vars

\* C4: the scene holds at most one Connection per unordered pair of nodes,
\* also after a two-click gesture on a pair that is already connected.
C4_OnePerPair ==
    \A c, d \in SceneConns : Ends(c) = Ends(d) => c = d

\* The first record of the loaded document that joins the tags of r
FirstOfPair(r) ==
    LET cs == layout_data.connections
        i == CHOOSE k \in DOMAIN cs :
                /\ {cs[k].start, cs[k].end} = {r.start, r.end}
                /\ \A j \in 1..(k - 1) : {cs[j].start, cs[j].end} # {r.start, r.end}
    IN cs[i]

\* C5: after loading, every unordered pair of current tags named by one or
\* more records has exactly one Connection, the one of its first record.
C5_LoadOnePerPair ==
    lastEvent = "open" =>
        \A i \in DOMAIN layout_data.connections :
            LET r == layout_data.connections[i]
                live == {c \in SceneConns : EndNames(c) = {r.start, r.end}}
            IN (r.start # r.end /\ {r.start, r.end} \subseteq Range(tags)) =>
                  /\ Cardinality(live) = 1
                  /\ \A c \in live : LiveRecord(c) = FirstOfPair(r)

\* C6: no Connection in the scene has the same Node as both endpoints.
C6_NoSelfLoops ==
    \A c \in SceneConns : connObjs[c].start_node # connObjs[c].end_node

\* C7: both endpoints of every Connection in the scene are Nodes held in
\* the scene's nodes map, and no exported record names a removed tag.
C7_NoDangling ==
    /\ \A c \in SceneConns : Ends(c) \subseteq Range(nodes)
    /\ \A i \in DOMAIN get_layout_data(Scene).connections :
          LET r == get_layout_data(Scene).connections[i]
          IN {r.start, r.end} \subseteq DOMAIN nodes

\* C8: after every reconcile the names of the live Nodes are exactly the
\* tag set, one Node per name, and the nodes map holds exactly these Nodes.
C8_NodesAreTags ==
    /\ LiveNames = Range(tags)
    /\ Cardinality(SceneNodes) = Len(tags)
    /\ DOMAIN nodes = Range(tags)
    /\ Range(nodes) = SceneNodes
    /\ \A t \in DOMAIN nodes : nodeObjs[nodes[t]].tag_name = t

\* C8 witness: a reconcile has removed a node, kept another, and its
\* document saved a position for a name that is no current tag.
C8_Witness ==
    /\ lastEvent = "update"
    /\ SceneNodes # {}
    /\ Len(nodeObjs) > Cardinality(SceneNodes)
    /\ DOMAIN layout_data.nodes \ Range(tags) # {}

\* C9: on load a record naming a tag outside the tag set makes no
\* Connection and raises nothing, and the other records are still processed.
C9_AbsentTagDropped ==
    lastEvent = "open" =>
        /\ ~raised
        /\ \A c \in SceneConns : EndNames(c) \subseteq Range(tags)
        /\ \A i \in DOMAIN layout_data.connections :
              LET r == layout_data.connections[i]
              IN (r.start # r.end /\ {r.start, r.end} \subseteq Range(tags)) =>
                    \E c \in SceneConns :
                        /\ LiveRecord(c).start = r.start
                        /\ LiveRecord(c).end = r.end

\* C9 witness: the first record names an absent tag, the second one is
\* between current tags and has its Connection.
C9_Witness ==
    /\ lastEvent = "open"
    /\ Len(layout_data.connections) = 2
    /\ ~({layout_data.connections[1].start, layout_data.connections[1].end}
            \subseteq Range(tags))
    /\ layout_data.connections[2].start # layout_data.connections[2].end
    /\ \E c \in SceneConns : LiveRecord(c) = layout_data.connections[2]

\* C10: the export has one entry per live Node, keyed by tag name, with the
\* node's current position, and one record per live Connection.
C10_ExportIsLiveGraph ==
    LET doc == get_layout_data(Scene)
    IN /\ DOMAIN doc.nodes = DOMAIN nodes
       /\ \A t \in DOMAIN nodes :
             doc.nodes[t] = [x |-> nodeObjs[nodes[t]].pos[1],
                             y |-> nodeObjs[nodes[t]].pos[2]]
       /\ Len(doc.connections) = Cardinality(SceneConns)
       /\ BagOfSeq(doc.connections) = ConnBag

\* C10 witness: the export of a scene with two nodes and a connection,
\* loaded from a document that also saved a name that is no current tag.
C10_Witness ==
    /\ Cardinality(SceneNodes) = 2
    /\ SceneConns # {}
    /\ DOMAIN layout_data.nodes \ DOMAIN nodes # {}

\* Two positions far enough apart for the collision test
Apart(p, q) ==
    \/ Abs(p[1] - q[1]) >= SafeDx * 1000
    \/ Abs(p[2] - q[2]) >= SafeDy * 1000

\* C11: every two live nodes that still stand where the Layout Engine put
\* them are at least 120 apart in x or at least 50 apart in y, whether they
\* were placed in one reconcile or in different ones.
C11_NoOverlap ==
    \A n, m \in spiralPlaced \cap SceneNodes :
        n # m => Apart(nodeObjs[n].pos, nodeObjs[m].pos)

\* C11 witness: a reconcile that added a tag has placed its node beside a
\* node the engine placed in an earlier reconcile.
C11_Witness ==
    /\ lastEvent = "update"
    /\ \E n, m \in spiralPlaced \cap SceneNodes :
          /\ nodeObjs[m].tag_name \in DOMAIN layout_data.nodes
          /\ nodeObjs[n].tag_name \notin DOMAIN layout_data.nodes

\* The position of tag t in scene sc
PosOf(sc, t) == sc.nodeObjs[sc.nodes[t]].pos

\* C12: opening the map on a document with the tags in any order gives
\* every node the position it gets when the same tags come in sorted order.
C12_OrderIndependent ==
    lastEvent = "open" =>
        LET sorted == update_scene(EmptyScene, Sorted(Range(tags)), layout_data)
        IN \A t \in DOMAIN nodes : PosOf(Scene, t) = PosOf(sorted, t)

\* C13: a click on node a with no gesture pending makes a the pending start
\* and highlights it; a click on another node b with the prompt confirmed
\* then creates the connection (a, b, label), clears a's highlight and
\* leaves no gesture pending.
C13_GestureCompletes ==
    [][\A node \in SceneNodes, ok \in BOOLEAN, label \in Labels :
         mousePressEvent_Node(node, ok, label) =>
            /\ start_node = None =>
                  /\ start_node' = node
                  /\ nodeObjs'[node].highlighted
                  /\ SceneConns' = SceneConns
            /\ (start_node # None /\ start_node # node /\ ok) =>
                  /\ \E c \in SceneConns' :
                        /\ SceneConns' = SceneConns \cup {c}
                        /\ c \notin SceneConns
                        /\ connObjs'[c].start_node = start_node
                        /\ connObjs'[c].end_node = node
                        /\ connObjs'[c].label = label
                  /\ ~nodeObjs'[start_node].highlighted
                  /\ start_node' = None]_vars

\* C13 witness: the second click of a gesture has just created a connection
\* between two live nodes, with an empty label.
C13_Witness ==
    /\ lastEvent = "connect"
    /\ start_node = None
    /\ \E c \in SceneConns :
          /\ c = Len(connObjs)
          /\ connObjs[c].label = ""
          /\ connObjs[c].start_node # connObjs[c].end_node
          /\ Ends(c) \subseteq SceneNodes
          /\ \A n \in Ends(c) : ~nodeObjs[n].highlighted

\* The three ways to cancel a pending gesture: a click on the pending start
\* itself, a click on empty space, a click on another node whose prompt is
\* cancelled
CancelStep ==
    /\ start_node # None
    /\ \/ mousePressEvent_Empty
       \/ \E node \in SceneNodes, label \in Labels :
              mousePressEvent_Node(node, FALSE, label)

\* C14: each way to cancel leaves no gesture pending and the start's
\* highlight cleared, and changes neither the nodes, nor a node position,
\* nor the connections.
C14_CancelKeepsGraph ==
    [][CancelStep =>
         /\ start_node' = None
         /\ ~nodeObjs'[start_node].highlighted
         /\ nodes' = nodes
         /\ SceneNodes' = SceneNodes
         /\ \A n \in SceneNodes : nodeObjs'[n].pos = nodeObjs[n].pos
         /\ SceneConns' = SceneConns
         /\ connObjs' = connObjs]_vars

\* C14 witness: a press has just cancelled a pending gesture in a scene
\* that holds two nodes and a connection.
C14_Witness ==
    /\ lastEvent = "cancel"
    /\ start_node = None
    /\ Cardinality(SceneNodes) = 2
    /\ SceneConns # {}
    /\ \A n \in SceneNodes : ~nodeObjs[n].highlighted

\* C15: a press on a node followed by pointer movement before the release
\* moves the node and neither sets nor advances the pending start; a press
\* and release without movement does not move the node.
C15_ClickOrDrag ==
    [][/\ \A node \in SceneNodes : \A band \in Bands(node) :
            mouseDrag_Node(node, band) =>
               /\ start_node' = start_node
               /\ SceneConns' = SceneConns
               /\ nodeObjs'[node].pos # nodeObjs[node].pos
       /\ \A node \in SceneNodes, ok \in BOOLEAN, label \in Labels :
            mousePressEvent_Node(node, ok, label) =>
               nodeObjs'[node].pos = nodeObjs[node].pos]_vars

\* The connections among the selected items
SelectedConns == {it.id : it \in {x \in selectedItems : x.kind = "conn"}}

\* A node's edges without the selected connections
EdgesLeft(n) ==
    LET Kept(c) == c \notin SelectedConns
    IN SelectSeq(nodeObjs[n].edges, Kept)

\* C16: the delete key removes every selected connection from the scene and
\* from the edges of both its endpoints and changes nothing else: no node
\* leaves the scene, no position, highlight or pending start changes, and
\* every other connection stays in the scene and in the edges it was in.
C16_DeleteBoundary ==
    [][keyPressEvent_Delete =>
         /\ SceneConns' = SceneConns \ SelectedConns
         /\ \A c \in SelectedConns : \A n \in Ends(c) :
               c \notin Range(nodeObjs'[n].edges)
         /\ SceneNodes' = SceneNodes
         /\ nodes' = nodes
         /\ start_node' = start_node
         /\ connObjs' = connObjs
         /\ Len(nodeObjs') = Len(nodeObjs)
         /\ \A n \in 1..Len(nodeObjs) :
               nodeObjs'[n] = [nodeObjs[n] EXCEPT !.edges = EdgesLeft(n)]]_vars

\* C16 witness: the delete key has just removed a connection while a node
\* was selected too and another connection was not: the node and the other
\* connection are still in the scene.
C16_Witness ==
    /\ lastEvent = "delete"
    /\ \E n \in SceneNodes : NodeItem(n) \in selectedItems
    /\ \E c \in 1..Len(connObjs) :
          /\ c \notin SceneConns
          /\ Ends(c) \subseteq SceneNodes
          /\ \A n \in Ends(c) : c \notin Range(nodeObjs[n].edges)
    /\ \E c \in SceneConns : \A n \in Ends(c) : c \in Range(nodeObjs[n].edges)

\* The tags the loaded document gives a usable position
SavedTags ==
    {t \in Range(tags) : HasSavedPos(Get(layout_data, "nodes", <<>>), t)}

\* C17: loading a missing or damaged document (no file, an empty document,
\* no nodes key, no connections key, an entry without x or y, a record
\* without start or end) raises no error, creates a node for every tag and
\* places every tag without a usable saved position with the spiral.
C17_MalformedIsEmpty ==
    lastEvent = "open" =>
        /\ ~raised
        /\ DOMAIN nodes = Range(tags)
        /\ \A t \in Range(tags) \ SavedTags : nodes[t] \in spiralPlaced

\* The line a connection would get from the positions its nodes have now
FreshLine(c) == update_position(Scene, c).connObjs[c].line

\* q lies on the ellipse of half-width EllipseRx and half-height EllipseRy
\* around p: (dx/rx)^2 + (dy/ry)^2 = 1, in tenths of a pixel and within
\* four per cent
OnEllipse(q, p) ==
    LET dx == (q[1] - p[1]) \div 100
        dy == (q[2] - p[2]) \div 100
        lhs == EllipseRy * EllipseRy * dx * dx + EllipseRx * EllipseRx * dy * dy
        rhs == EllipseRx * EllipseRx * EllipseRy * EllipseRy * 100
    IN Abs(lhs - rhs) * 25 <= rhs

\* The end of connection c's line at node n
LineEndAt(c, n) ==
    IF connObjs[c].start_node = n THEN connObjs[c].line[1]
    ELSE connObjs[c].line[2]

\* The node the last move dragged: the only selected item
MovedNodes ==
    {n \in SceneNodes : lastEvent = "move" /\ selectedItems = {NodeItem(n)}}

\* C18: edge geometry stays attached: every connection in the scene has the
\* line its nodes' current positions give, also right after a node was
\* moved; each end lies on its node's ellipse (45 by 15) when the two nodes
\* are at different positions, and at the shared position when they are at
\* the same one.
C18_EdgesAttached ==
    \A c \in SceneConns :
        LET a == connObjs[c].start_node
            b == connObjs[c].end_node
        IN /\ connObjs[c].line = FreshLine(c)
           /\ nodeObjs[a].pos # nodeObjs[b].pos =>
                 /\ OnEllipse(connObjs[c].line[1], nodeObjs[a].pos)
                 /\ OnEllipse(connObjs[c].line[2], nodeObjs[b].pos)
           /\ nodeObjs[a].pos = nodeObjs[b].pos =>
                 connObjs[c].line = <<nodeObjs[a].pos, nodeObjs[a].pos>>

\* C18 witness: a node with a connection has just been moved to a position
\* that is not its neighbour's, and the connection's end has followed it
\* onto its ellipse.
C18_Witness ==
    \E n \in MovedNodes : \E c \in SceneConns :
        /\ n \in Ends(c)
        /\ \A m \in Ends(c) \ {n} : nodeObjs[m].pos # nodeObjs[n].pos
        /\ nodeObjs[n].pos[2] >= 60000
        /\ OnEllipse(LineEndAt(c, n), nodeObjs[n].pos)
        /\ LineEndAt(c, n) # nodeObjs[n].pos

\* C18 as stated: after a move to any position, the exact position of a
\* neighbour included, every connection of the moved node ends on the
\* node's ellipse and not at its centre.
C18_AlwaysOnBoundary ==
    \A n \in MovedNodes : \A c \in SceneConns :
        n \in Ends(c) =>
            /\ connObjs[c].line = FreshLine(c)
            /\ OnEllipse(LineEndAt(c, n), nodeObjs[n].pos)

\* C19: the spiral search terminates: once _find_next_available_pos has
\* entered its loop, for any occupied set and centre, it eventually returns
\* a position.
C19_Terminates == (search.state = "loop") ~> (search.state = "returned")

\* C19 witness: a search has returned after the occupied positions blocked
\* the whole first ring, so the radius had to grow.
C19_Witness ==
    /\ search.state = "returned"
    /\ search.r > InitialRadius
    /\ ~IsOccupied(search.occupied_positions, search.result[1], search.result[2])

\* C20: a node's edges are consistent with the scene in every reachable
\* state: a connection is in the edges of a live node exactly when it is in
\* the scene and the node is one of its endpoints.
C20_EdgesMatchScene ==
    \A n \in SceneNodes : \A c \in 1..Len(connObjs) :
        (c \in Range(nodeObjs[n].edges)) <=> (c \in SceneConns /\ n \in Ends(c))

\* The scene update_tags(tagList) leaves, and the nodes its second pass
\* hands to the spiral search
UpdatedScene(tagList) == update_scene(Scene, tagList, get_layout_data(Scene))
LaidOutBy(tagList) ==
    SpiralPlacedBy(UpdatedScene(tagList), tagList, get_layout_data(Scene))

RingPoint(center, k) ==
    LET r == 150 + 10 * (k \div 12)
        i == (k % 12) + 1
    IN <<Fl(center[1] + r * CosMilli[i]), Fl(center[2] + r * SinMilli[i])>>
CandidateAt(k) == RingPoint(<<search.center_x, search.center_y>>, k)

\* p collides with an occupied position: |dx| < 120 and |dy| < 50
Collides(p) == \E q \in Range(search.occupied_positions) : ~Apart(p, q)

\* How many points the search has passed when it is at r and theta
TurnsTaken == ((search.r - 150) \div 10) * 12 + (search.theta \div 30)

\* C22: _find_next_available_pos returns the first point of the spiral, in
\* the order r = 150 with theta = 0, 30, ..., 330, then r = 160 and so on,
\* that collides with no occupied position; every earlier point collides.
C22_FirstFreePoint ==
    search.state = "returned" =>
        /\ search.result = CandidateAt(TurnsTaken)
        /\ ~Collides(search.result)
        /\ \A j \in 0..(TurnsTaken - 1) : Collides(CandidateAt(j))
        /\ search.result =
              find_next_available_pos(search.occupied_positions,
                                      search.center_x, search.center_y)

\* C22 witness: a search has returned a point of a later ring at an angle
\* other than 0, after every point before it collided.
C22_Witness ==
    /\ search.state = "returned"
    /\ search.r > InitialRadius + RadiusIncrement
    /\ search.theta > 0
    /\ TurnsTaken > 12
    /\ search.result = CandidateAt(TurnsTaken)

\* The distinct positions the document saves for the tags, in tag order
RECURSIVE SavedInOrder(_, _)
SavedInOrder(tagList, fileNodes) ==
    IF tagList = <<>> THEN <<>>
    ELSE LET t == tagList[Len(tagList)]
             rest == SavedInOrder(SubSeq(tagList, 1, Len(tagList) - 1), fileNodes)
         IN IF HasSavedPos(fileNodes, t)
            THEN SetAdd(rest, <<fileNodes[t].x, fileNodes[t].y>>)
            ELSE rest

\* The centroid of a list of positions, the origin for none
Centroid(ps) ==
    IF ps = <<>> THEN <<0, 0>>
    ELSE <<SumOf(ps, 1, 0) \div Len(ps), SumOf(ps, 2, 0) \div Len(ps)>>

\* The saved positions, their centroid and the new tags of the last
\* reconcile (layout_data is the document it was given)
LoadedSaved == SavedInOrder(tags, Get(layout_data, "nodes", <<>>))
LoadedCenter == Centroid(LoadedSaved)
LoadedNew == Sorted(Range(tags) \ SavedTags)

\* p is the first point of the spiral around center that is apart from all
\* of taken
FirstFreeAround(p, center, taken) ==
    \E k \in 0..47 :
        /\ p = RingPoint(center, k)
        /\ \A q \in taken : Apart(p, q)
        /\ \A j \in 0..(k - 1) : \E q \in taken : ~Apart(RingPoint(center, j), q)

\* C23: the spiral centre of a batch is computed once, as the centroid of
\* the positions the document saves for the current tags, the origin when
\* it saves none; every new tag, also after others of the batch have been
\* placed, gets the first free point of the spiral around that one centre.
C23_CenterOncePerBatch ==
    lastEvent \in {"open", "update"} =>
        \A i \in 1..Len(LoadedNew) :
            FirstFreeAround(
                PosOf(Scene, LoadedNew[i]), LoadedCenter,
                Range(LoadedSaved)
                    \cup {PosOf(Scene, LoadedNew[j]) : j \in 1..(i - 1)})

\* C23 witness: a map was loaded with saved positions whose centroid is
\* not the origin and with three new tags, all placed by the spiral.
C23_Witness ==
    /\ lastEvent = "open"
    /\ LoadedCenter # <<0, 0>>
    /\ Len(LoadedNew) = 3
    /\ \A i \in 1..3 : nodes[LoadedNew[i]] \in spiralPlaced

\* C24: with two tags and an empty saved layout the first tag is placed at
\* (150, 0) and the second at the first free point of the spiral around the
\* centre computed before the first was placed, the origin: (129.9, 75);
\* the two positions are 120 apart in x or 50 apart in y.
C24_TwoTagsExample ==
    (lastEvent = "open" /\ Len(tags) = 2 /\ SavedTags = {}) =>
        LET alpha == PosOf(Scene, LoadedNew[1])
            beta == PosOf(Scene, LoadedNew[2])
        IN /\ alpha = <<150000, 0>>
           /\ FirstFreeAround(beta, <<0, 0>>, {alpha})
           /\ beta = RingPoint(<<0, 0>>, 1)
           /\ Apart(alpha, beta)

\* C24 witness: the map was opened on two tags and no saved layout, and the
\* second tag is on the first ring around the origin at 30 degrees.
C24_Witness ==
    /\ lastEvent = "open"
    /\ tags = <<"b", "a">>
    /\ layout_data = EmptyDoc
    /\ PosOf(Scene, "a") = <<150000, 0>>
    /\ PosOf(Scene, "b")[2] = 75000

\* C24 as stated: the second tag is at the first free point of the spiral
\* around the centroid updated with the first tag's position.
C24_UpdatedCentroid ==
    (lastEvent = "open" /\ Len(tags) = 2 /\ SavedTags = {}) =>
        LET alpha == PosOf(Scene, LoadedNew[1])
            beta == PosOf(Scene, LoadedNew[2])
        IN /\ alpha = <<150000, 0>>
           /\ FirstFreeAround(beta, Centroid(<<alpha>>), {alpha})
           /\ Apart(alpha, beta)

\* The document saves tag t at position p
SavedAt(t, p) ==
    /\ HasSavedPos(Get(layout_data, "nodes", <<>>), t)
    /\ p = <<layout_data.nodes[t].x, layout_data.nodes[t].y>>

\* The document has a record from tag s to tag e
HasRecord(s, e) ==
    \E i \in DOMAIN Get(layout_data, "connections", <<>>) :
        /\ layout_data.connections[i].start = s
        /\ layout_data.connections[i].end = e

\* C25: coincident endpoints do not fail: when the loaded document saves
\* two tags at the same position and has a connection between them, no
\* error is raised, both nodes are at that position, the connection is in
\* the scene and both ends of its line are at the shared position.
C25_CoincidentEndpoints ==
    lastEvent = "open" =>
        \A s, e \in Range(tags) : \A p \in SavedPos :
            (s # e /\ SavedAt(s, p) /\ SavedAt(e, p) /\ HasRecord(s, e)) =>
                /\ ~raised
                /\ PosOf(Scene, s) = p
                /\ PosOf(Scene, e) = p
                /\ \E c \in SceneConns :
                      /\ connObjs[c].start_node = nodes[s]
                      /\ connObjs[c].end_node = nodes[e]
                /\ \A c \in SceneConns :
                      Ends(c) = {nodes[s], nodes[e]} => connObjs[c].line = <<p, p>>

\* C25 witness: the map was loaded from a document that saves a and b at
\* (100, 0) and connects a to b; the connection is in the scene with a
\* zero-length line.
C25_Witness ==
    /\ lastEvent = "open"
    /\ {"a", "b"} \subseteq DOMAIN nodes
    /\ SavedAt("a", <<100000, 0>>)
    /\ SavedAt("b", <<100000, 0>>)
    /\ HasRecord("a", "b")
    /\ \E c \in SceneConns :
          /\ connObjs[c].start_node = nodes["a"]
          /\ connObjs[c].end_node = nodes["b"]
          /\ connObjs[c].line = <<<<100000, 0>>, <<100000, 0>>>>

\* C26: in every reachable state the pending start of the gesture is either
\* none or a node that is in the scene's nodes map and in the scene, also
\* after an update has removed tags while the gesture was pending.
C26_PendingStartIsLive ==
    start_node # None =>
        /\ start_node \in Range(nodes)
        /\ start_node \in SceneNodes

====
